---- MODULE Spec2Model ----
(***************************************************************************)
(* A model of footprint_analyzer: the FootprintEngine (engine.py), the     *)
(* FootprintBar and PriceLevelData records it builds (domain.py) and the   *)
(* FootprintEngineConfig it reads (config.py).                             *)
(*                                                                         *)
(* Numbers.  Timestamps are integers (one unit = one second).  Prices are  *)
(* integers counted in a fine raw unit; tick_size is a positive number of  *)
(* raw units, so round(price / tick_size) * tick_size is computed exactly  *)
(* (Python's round is round-half-to-even).  value_area_percentage is held  *)
(* in percent (70 for 0.70).  A dominance ratio is the pair                *)
(* <<numerator, denominator>> of the division the code performs;           *)
(* float('inf') is the pair Infinity.                                      *)
(*                                                                         *)
(* Objects.  FootprintBar objects live in a heap keyed by object identity; *)
(* the engine's bars list and current_bar hold identities, as Python       *)
(* references do.  A dict is a sequence of its values in insertion order,  *)
(* which is the order Python iterates it in.                               *)
(***************************************************************************)
EXTENDS Integers, Sequences, FiniteSets, TLC

VARIABLES
    config,   \* FootprintEngine.config, fixed at construction
    engine,   \* the FootprintEngine under study: heap, bars, current_bar, counters
    single,   \* a second engine, same config, fed the same ticks one process_tick at a time
    audit,    \* observer's bookkeeping of what was fed into each live bar
    clock,    \* timestamp of the latest tick the data source supplied
    last_call,\* the engine method the caller invoked last
    pld,      \* a free-standing PriceLevelData, driven directly
    policy,   \* the zero_handling of the latest update_derived_metrics on pld
    caller,   \* what the caller of the engine holds: the list it was returned, its notes
    va        \* a Value Area search in progress on a free-standing bar

vars == <<config, engine, single, audit, clock, last_call, pld, policy, caller, va>>

----------------------------------------------------------------------------
(* Bounds of the exploration *)

MaxTicks == 3       \* ticks fed to an engine in one run
MaxLevelVol == 6    \* volume on one side of the free-standing level
MaxLevels == 3      \* price levels of the free-standing bar
MaxVaVol == 2       \* volume of one price level of the free-standing bar

(* Input alphabets.  With tick_size 2 the raw prices quantize to 2, 4 (from  *)
(* 2.5 ticks, a tie) and 6.                                                  *)
RawPrices == {2, 5, 6}
Volumes == {1, 2}
BatchSizes == {0, 1, 2}

----------------------------------------------------------------------------
(* Python values *)

None == 0                 \* no object / no bar (object identities start at 1)
NoPrice == -1             \* None in an Optional[float] price field (prices are >= 0)
Infinity == <<1, 0>>      \* float('inf')

Max(a, b) == IF a >= b THEN a ELSE b
Min(a, b) == IF a <= b THEN a ELSE b

RECURSIVE SumSeq(_)
SumSeq(s) == IF Len(s) = 0 THEN 0 ELSE Head(s) + SumSeq(Tail(s))

Range(s) == {s[i] : i \in 1..Len(s)}

(* round(x) for x = a / b, b # 0: round half to even *)
round(a, b) ==
    LET n == IF b < 0 THEN -a ELSE a
        d == IF b < 0 THEN -b ELSE b
        f == n \div d
        r == n % d
    IN  IF 2 * r < d THEN f
        ELSE IF 2 * r > d THEN f + 1
        ELSE IF f % 2 = 0 THEN f ELSE f + 1

(* pd.Timestamp(t).floor(d) *)
floor(t, d) == (t \div d) * d

----------------------------------------------------------------------------
(* domain.py: PriceLevelData *)

(* update_derived_metrics as it would be had the "inf" policy been forgotten: *)
(* a zero denominator is always replaced by one                              *)
update_derived_metrics_always_one(level, zero_handling) ==
    LET is_ask_dominant == level.ask_volume >= level.bid_volume
        numerator == IF is_ask_dominant THEN level.ask_volume ELSE level.bid_volume
        denominator0 == IF is_ask_dominant THEN level.bid_volume ELSE level.ask_volume
        denominator == IF denominator0 = 0 THEN 1 ELSE denominator0
    IN  [level EXCEPT
            !.total_volume = level.bid_volume + level.ask_volume,
            !.total_trades = level.bid_trades + level.ask_trades,
            !.delta = level.ask_volume - level.bid_volume,
            !.is_ask_dominant = is_ask_dominant,
            !.dominance_ratio = <<numerator, denominator>>]

update_derived_metrics(level, zero_handling) ==
    LET is_ask_dominant == level.ask_volume >= level.bid_volume
        numerator == IF is_ask_dominant THEN level.ask_volume ELSE level.bid_volume
        denominator0 == IF is_ask_dominant THEN level.bid_volume ELSE level.ask_volume
        denominator == IF denominator0 = 0 /\ zero_handling = "set_to_one"
                       THEN 1 ELSE denominator0
        dominance_ratio ==
            IF denominator = 0
            THEN (IF numerator > 0 THEN Infinity ELSE <<0, 1>>)
            ELSE <<numerator, denominator>>
    IN  [level EXCEPT
            !.total_volume = level.bid_volume + level.ask_volume,
            !.total_trades = level.bid_trades + level.ask_trades,
            !.delta = level.ask_volume - level.bid_volume,
            !.is_ask_dominant = is_ask_dominant,
            !.dominance_ratio = dominance_ratio]

(* The dataclass constructor: the four counters as given, then __post_init__ *)
PriceLevelData(price, bid_volume, ask_volume, bid_trades, ask_trades) ==
    update_derived_metrics(
        [price |-> price,
         bid_volume |-> bid_volume, ask_volume |-> ask_volume,
         bid_trades |-> bid_trades, ask_trades |-> ask_trades,
         total_volume |-> 0, total_trades |-> 0, delta |-> 0,
         is_ask_dominant |-> FALSE, dominance_ratio |-> <<0, 1>>],
        "set_to_one")

----------------------------------------------------------------------------
(* domain.py: FootprintBar *)

FootprintBar(start_time, end_time, open_price, high_price, low_price, close_price) ==
    [start_time |-> start_time, end_time |-> end_time,
     open_price |-> open_price, high_price |-> high_price,
     low_price |-> low_price, close_price |-> close_price,
     price_levels |-> <<>>,
     total_bar_volume |-> 0, total_bar_ask_volume |-> 0,
     total_bar_bid_volume |-> 0, total_bar_trades |-> 0, bar_delta |-> 0,
     poc_price |-> NoPrice, value_area_high |-> NoPrice, value_area_low |-> NoPrice,
     is_up_bar |-> FALSE,
     tick_count |-> 0, current_aggregated_volume |-> 0,
     bar_direction |-> 0, extreme_price_during_formation |-> NoPrice]

(* Position of price among the dict's keys, 0 when it is no key *)
KeyIndex(levels, price) ==
    IF \E i \in 1..Len(levels) : levels[i].price = price
    THEN CHOOSE i \in 1..Len(levels) : levels[i].price = price
    ELSE 0

Keys(levels) == {levels[i].price : i \in 1..Len(levels)}

(* self.price_levels[price] *)
LevelAt(levels, price) == levels[KeyIndex(levels, price)]

(* sorted(self.price_levels.keys()) *)
RECURSIVE SortedSeq(_)
SortedSeq(S) ==
    IF S = {} THEN <<>>
    ELSE LET m == CHOOSE x \in S : \A y \in S : x <= y
         IN  <<m>> \o SortedSeq(S \ {m})

(* max(values, key=total_volume) were it to take the lowest price among the *)
(* maximal values                                                           *)
MaxVolumeLevel_lowest_price(levels) ==
    LET i == CHOOSE k \in 1..Len(levels) :
                /\ \A j \in 1..Len(levels) : levels[j].total_volume <= levels[k].total_volume
                /\ \A j \in 1..Len(levels) :
                      levels[j].total_volume = levels[k].total_volume =>
                          levels[k].price <= levels[j].price
    IN  levels[i]

(* max(values, key=total_volume): the first maximal value in iteration order *)
MaxVolumeLevel(levels) ==
    LET i == CHOOSE k \in 1..Len(levels) :
                /\ \A j \in 1..Len(levels) : levels[j].total_volume <= levels[k].total_volume
                /\ \A j \in 1..(k - 1) : levels[j].total_volume < levels[k].total_volume
    IN  levels[i]

(* The while loop of the Value Area search.  The state of the loop is        *)
(* low_idx, high_idx, va_volume (indices are 1-based here).                  *)
RECURSIVE ValueAreaLoop(_, _, _, _, _, _, _)

(* The while loop as it would be if it gave up as soon as one side had no   *)
(* volume                                                                   *)
ValueAreaLoop_either_side(levels, sorted_prices, low_idx, high_idx, va_volume, total, pct) ==
    IF ~(va_volume * 100 < total * pct)
    THEN [low_idx |-> low_idx, high_idx |-> high_idx, va_volume |-> va_volume]
    ELSE
        LET vol_above == IF high_idx + 1 <= Len(sorted_prices)
                         THEN LevelAt(levels, sorted_prices[high_idx + 1]).total_volume
                         ELSE 0
            vol_below == IF low_idx - 1 >= 1
                         THEN LevelAt(levels, sorted_prices[low_idx - 1]).total_volume
                         ELSE 0
        IN  IF vol_above = 0 \/ vol_below = 0
            THEN [low_idx |-> low_idx, high_idx |-> high_idx, va_volume |-> va_volume]
            ELSE IF vol_above >= vol_below
            THEN ValueAreaLoop(levels, sorted_prices, low_idx, high_idx + 1,
                               va_volume + vol_above, total, pct)
            ELSE ValueAreaLoop(levels, sorted_prices, low_idx - 1, high_idx,
                               va_volume + vol_below, total, pct)

(* The body of the while loop run once: the loop variables after it, and    *)
(* whether it left the loop by break                                        *)
ValueAreaIteration(levels, sorted_prices, low_idx, high_idx, va_volume) ==
    LET vol_above == IF high_idx + 1 <= Len(sorted_prices)
                     THEN LevelAt(levels, sorted_prices[high_idx + 1]).total_volume
                     ELSE 0
        vol_below == IF low_idx - 1 >= 1
                     THEN LevelAt(levels, sorted_prices[low_idx - 1]).total_volume
                     ELSE 0
    IN  IF vol_above = 0 /\ vol_below = 0
        THEN [low_idx |-> low_idx, high_idx |-> high_idx, va_volume |-> va_volume,
              broke |-> TRUE]
        ELSE IF vol_above >= vol_below
        THEN [low_idx |-> low_idx, high_idx |-> high_idx + 1,
              va_volume |-> va_volume + vol_above, broke |-> FALSE]
        ELSE [low_idx |-> low_idx - 1, high_idx |-> high_idx,
              va_volume |-> va_volume + vol_below, broke |-> FALSE]

ValueAreaLoop(levels, sorted_prices, low_idx, high_idx, va_volume, total, pct) ==
    IF ~(va_volume * 100 < total * pct)
    THEN [low_idx |-> low_idx, high_idx |-> high_idx, va_volume |-> va_volume]
    ELSE
        LET s == ValueAreaIteration(levels, sorted_prices, low_idx, high_idx, va_volume)
        IN  IF s.broke
            THEN [low_idx |-> low_idx, high_idx |-> high_idx, va_volume |-> va_volume]
            ELSE ValueAreaLoop(levels, sorted_prices, s.low_idx, s.high_idx,
                               s.va_volume, total, pct)

update_bar_statistics(bar, value_area_percentage) ==
    LET levels == bar.price_levels
        is_up == bar.close_price >= bar.open_price
    IN
    IF Len(levels) = 0
    THEN [bar EXCEPT !.is_up_bar = is_up]
    ELSE
        LET total == SumSeq([i \in 1..Len(levels) |-> levels[i].total_volume])
            ask == SumSeq([i \in 1..Len(levels) |-> levels[i].ask_volume])
            bid == SumSeq([i \in 1..Len(levels) |-> levels[i].bid_volume])
            trades == SumSeq([i \in 1..Len(levels) |-> levels[i].total_trades])
            poc_price == MaxVolumeLevel(levels).price
            b1 == [bar EXCEPT
                      !.total_bar_volume = total,
                      !.total_bar_ask_volume = ask,
                      !.total_bar_bid_volume = bid,
                      !.total_bar_trades = trades,
                      !.bar_delta = ask - bid,
                      !.is_up_bar = is_up,
                      !.poc_price = poc_price]
        IN
        IF b1.poc_price # NoPrice /\ total > 0
        THEN
            LET sorted_prices == SortedSeq(Keys(levels))
                poc_index == CHOOSE i \in 1..Len(sorted_prices) :
                                sorted_prices[i] = b1.poc_price
                w == ValueAreaLoop(levels, sorted_prices, poc_index, poc_index,
                                   LevelAt(levels, b1.poc_price).total_volume,
                                   total, value_area_percentage)
            IN  [b1 EXCEPT
                    !.value_area_high = sorted_prices[w.high_idx],
                    !.value_area_low = sorted_prices[w.low_idx]]
        ELSE b1

----------------------------------------------------------------------------
(* config.py: FootprintEngineConfig *)

FootprintEngineConfig(tick_size, aggregation_type, aggregation_value, value_area_percentage, zeros_as_ones, max_bars_in_memory) ==
    [tick_size |-> tick_size,
     aggregation_type |-> aggregation_type,
     aggregation_value |-> aggregation_value,
     value_area_percentage |-> value_area_percentage,
     enable_bid_ask_ratios_with_zeros_as_ones |-> zeros_as_ones,
     max_bars_in_memory |-> max_bars_in_memory]

get_zero_handling_for_ratios(cfg) ==
    IF cfg.enable_bid_ask_ratios_with_zeros_as_ones THEN "set_to_one" ELSE "inf"

(* The configurations explored *)
Configs ==
    {FootprintEngineConfig(2, "time", 2, 70, TRUE, 2),
     FootprintEngineConfig(2, "tick", 1, 100, TRUE, 2),
     FootprintEngineConfig(2, "tick", 2, 70, FALSE, 1),
     FootprintEngineConfig(2, "volume", 2, 50, FALSE, 1),
     FootprintEngineConfig(2, "range", 2, 70, TRUE, 1),
     FootprintEngineConfig(2, "reversal", 2, 50, FALSE, 2)}

----------------------------------------------------------------------------
(* engine.py: FootprintEngine *)

(* FootprintEngine.__init__ *)
FootprintEngine ==
    [heap |-> <<>>,               \* the FootprintBar objects the engine refers to
     bars |-> <<>>,
     current_bar |-> None,
     total_ticks_processed |-> 0,
     next_id |-> 1]               \* identity of the next object constructed

(* An object nothing refers to any more is gone *)
Collect(e) ==
    LET live == Range(e.bars) \cup ({e.current_bar} \ {None})
    IN  [e EXCEPT !.heap = [id \in live |-> e.heap[id]]]

(* _should_create_new_bar with the tick count compared by > *)
_should_create_new_bar_tick_gt(e, timestamp, price) ==
    LET agg_type == config.aggregation_type
        agg_val == config.aggregation_value
    IN  IF agg_type = "time"
        THEN timestamp >= e.heap[e.current_bar].start_time + agg_val
        ELSE IF agg_type = "tick"
        THEN e.heap[e.current_bar].tick_count > agg_val
        ELSE IF agg_type = "volume"
        THEN e.heap[e.current_bar].current_aggregated_volume >= agg_val
        ELSE FALSE

(* _should_create_new_bar with the accumulated volume compared by > *)
_should_create_new_bar_volume_gt(e, timestamp, price) ==
    LET agg_type == config.aggregation_type
        agg_val == config.aggregation_value
    IN  IF agg_type = "time"
        THEN timestamp >= e.heap[e.current_bar].start_time + agg_val
        ELSE IF agg_type = "tick"
        THEN e.heap[e.current_bar].tick_count >= agg_val
        ELSE IF agg_type = "volume"
        THEN e.heap[e.current_bar].current_aggregated_volume > agg_val
        ELSE FALSE

(* _should_create_new_bar with RANGE and REVERSAL closing a bar whose prices *)
(* span aggregation_value                                                   *)
_should_create_new_bar_range(e, timestamp, price) ==
    LET agg_type == config.aggregation_type
        agg_val == config.aggregation_value
    IN  IF agg_type = "time"
        THEN timestamp >= e.heap[e.current_bar].start_time + agg_val
        ELSE IF agg_type = "tick"
        THEN e.heap[e.current_bar].tick_count >= agg_val
        ELSE IF agg_type = "volume"
        THEN e.heap[e.current_bar].current_aggregated_volume >= agg_val
        ELSE e.heap[e.current_bar].high_price - e.heap[e.current_bar].low_price >= agg_val

_should_create_new_bar(e, timestamp, price) ==
    LET agg_type == config.aggregation_type
        agg_val == config.aggregation_value
    IN  IF agg_type = "time"
        THEN timestamp >= e.heap[e.current_bar].start_time + agg_val
        ELSE IF agg_type = "tick"
        THEN e.heap[e.current_bar].tick_count >= agg_val
        ELSE IF agg_type = "volume"
        THEN e.heap[e.current_bar].current_aggregated_volume >= agg_val
        ELSE FALSE

(* _create_new_bar without the floor of the TIME branch *)
_create_new_bar_unfloored(e, timestamp, price) ==
    LET rounded_price == round(price, config.tick_size) * config.tick_size
        bar == FootprintBar(timestamp, timestamp, rounded_price, rounded_price,
                            rounded_price, rounded_price)
    IN  Collect([e EXCEPT
                    !.heap = (e.next_id :> bar) @@ e.heap,
                    !.current_bar = e.next_id,
                    !.next_id = e.next_id + 1])

(* _create_new_bar creating the bar with its first tick already counted *)
_create_new_bar_counted(e, timestamp, price) ==
    LET rounded_price == round(price, config.tick_size) * config.tick_size
        start_time == IF config.aggregation_type = "time"
                      THEN floor(timestamp, config.aggregation_value)
                      ELSE timestamp
        bar == [FootprintBar(start_time, timestamp, rounded_price, rounded_price,
                             rounded_price, rounded_price)
                   EXCEPT !.tick_count = 1]
    IN  Collect([e EXCEPT
                    !.heap = (e.next_id :> bar) @@ e.heap,
                    !.current_bar = e.next_id,
                    !.next_id = e.next_id + 1])

(* _create_new_bar seeding the bar with the price as given, not rounded *)
_create_new_bar_raw_price(e, timestamp, price) ==
    LET start_time == IF config.aggregation_type = "time"
                      THEN floor(timestamp, config.aggregation_value)
                      ELSE timestamp
        bar == FootprintBar(start_time, timestamp, price, price, price, price)
    IN  Collect([e EXCEPT
                    !.heap = (e.next_id :> bar) @@ e.heap,
                    !.current_bar = e.next_id,
                    !.next_id = e.next_id + 1])

_create_new_bar(e, timestamp, price) ==
    LET rounded_price == round(price, config.tick_size) * config.tick_size
        start_time == IF config.aggregation_type = "time"
                      THEN floor(timestamp, config.aggregation_value)
                      ELSE timestamp
        bar == FootprintBar(start_time, timestamp, rounded_price, rounded_price,
                            rounded_price, rounded_price)
    IN  Collect([e EXCEPT
                    !.heap = (e.next_id :> bar) @@ e.heap,
                    !.current_bar = e.next_id,
                    !.next_id = e.next_id + 1])

(* _finalize_current_bar evicting as soon as the bound is reached (>=) *)
_finalize_current_bar_evict_early(e) ==
    IF e.current_bar = None
    THEN e
    ELSE
        LET updated == update_bar_statistics(e.heap[e.current_bar],
                                             config.value_area_percentage)
            appended == Append(e.bars, e.current_bar)
            kept == IF Len(appended) >= config.max_bars_in_memory
                    THEN Tail(appended) ELSE appended
        IN  Collect([e EXCEPT
                        !.heap = [e.heap EXCEPT ![e.current_bar] = updated],
                        !.bars = kept,
                        !.current_bar = None])

(* _finalize_current_bar without the call of update_bar_statistics *)
_finalize_current_bar_stale(e) ==
    IF e.current_bar = None
    THEN e
    ELSE
        LET appended == Append(e.bars, e.current_bar)
            kept == IF Len(appended) > config.max_bars_in_memory
                    THEN Tail(appended) ELSE appended
        IN  Collect([e EXCEPT !.bars = kept, !.current_bar = None])

(* _finalize_current_bar putting the bar at the front of the history *)
_finalize_current_bar_prepend(e) ==
    IF e.current_bar = None
    THEN e
    ELSE
        LET updated == update_bar_statistics(e.heap[e.current_bar],
                                             config.value_area_percentage)
            appended == <<e.current_bar>> \o e.bars
            kept == IF Len(appended) > config.max_bars_in_memory
                    THEN SubSeq(appended, 1, Len(appended) - 1) ELSE appended
        IN  Collect([e EXCEPT
                        !.heap = [e.heap EXCEPT ![e.current_bar] = updated],
                        !.bars = kept,
                        !.current_bar = None])

(* _finalize_current_bar without the final self.current_bar = None *)
_finalize_current_bar_keeps(e) ==
    IF e.current_bar = None
    THEN e
    ELSE
        LET updated == update_bar_statistics(e.heap[e.current_bar],
                                             config.value_area_percentage)
            appended == Append(e.bars, e.current_bar)
            kept == IF Len(appended) > config.max_bars_in_memory
                    THEN Tail(appended) ELSE appended
        IN  Collect([e EXCEPT
                        !.heap = [e.heap EXCEPT ![e.current_bar] = updated],
                        !.bars = kept])

_finalize_current_bar(e) ==
    IF e.current_bar = None
    THEN e
    ELSE
        LET updated == update_bar_statistics(e.heap[e.current_bar],
                                             config.value_area_percentage)
            appended == Append(e.bars, e.current_bar)
            kept == IF Len(appended) > config.max_bars_in_memory
                    THEN Tail(appended) ELSE appended
        IN  Collect([e EXCEPT
                        !.heap = [e.heap EXCEPT ![e.current_bar] = updated],
                        !.bars = kept,
                        !.current_bar = None])

(* FoldTick keeping total_bar_volume up to date with every tick *)
FoldTick_running_total(bar, timestamp, price, volume, is_bid_trade) ==
    LET rounded_price == round(price, config.tick_size) * config.tick_size
        levels1 == IF KeyIndex(bar.price_levels, rounded_price) = 0
                   THEN Append(bar.price_levels, PriceLevelData(rounded_price, 0, 0, 0, 0))
                   ELSE bar.price_levels
        k == KeyIndex(levels1, rounded_price)
        counted == IF is_bid_trade
                   THEN [levels1[k] EXCEPT !.bid_volume = @ + volume, !.bid_trades = @ + 1]
                   ELSE [levels1[k] EXCEPT !.ask_volume = @ + volume, !.ask_trades = @ + 1]
        level_data == update_derived_metrics(counted, get_zero_handling_for_ratios(config))
    IN  [bar EXCEPT
            !.price_levels = [levels1 EXCEPT ![k] = level_data],
            !.high_price = Max(bar.high_price, rounded_price),
            !.low_price = Min(bar.low_price, rounded_price),
            !.close_price = rounded_price,
            !.end_time = timestamp,
            !.tick_count = @ + 1,
            !.current_aggregated_volume = @ + volume,
            !.total_bar_volume = @ + volume]

(* FoldTick without the call of update_derived_metrics *)
FoldTick_no_recompute(bar, timestamp, price, volume, is_bid_trade) ==
    LET rounded_price == round(price, config.tick_size) * config.tick_size
        levels1 == IF KeyIndex(bar.price_levels, rounded_price) = 0
                   THEN Append(bar.price_levels, PriceLevelData(rounded_price, 0, 0, 0, 0))
                   ELSE bar.price_levels
        k == KeyIndex(levels1, rounded_price)
        counted == IF is_bid_trade
                   THEN [levels1[k] EXCEPT !.bid_volume = @ + volume, !.bid_trades = @ + 1]
                   ELSE [levels1[k] EXCEPT !.ask_volume = @ + volume, !.ask_trades = @ + 1]
    IN  [bar EXCEPT
            !.price_levels = [levels1 EXCEPT ![k] = counted],
            !.high_price = Max(bar.high_price, rounded_price),
            !.low_price = Min(bar.low_price, rounded_price),
            !.close_price = rounded_price,
            !.end_time = timestamp,
            !.tick_count = @ + 1,
            !.current_aggregated_volume = @ + volume]

(* FoldTick leaving end_time as _create_new_bar set it *)
FoldTick_keeps_end_time(bar, timestamp, price, volume, is_bid_trade) ==
    LET rounded_price == round(price, config.tick_size) * config.tick_size
        levels1 == IF KeyIndex(bar.price_levels, rounded_price) = 0
                   THEN Append(bar.price_levels, PriceLevelData(rounded_price, 0, 0, 0, 0))
                   ELSE bar.price_levels
        k == KeyIndex(levels1, rounded_price)
        counted == IF is_bid_trade
                   THEN [levels1[k] EXCEPT !.bid_volume = @ + volume, !.bid_trades = @ + 1]
                   ELSE [levels1[k] EXCEPT !.ask_volume = @ + volume, !.ask_trades = @ + 1]
        level_data == update_derived_metrics(counted, get_zero_handling_for_ratios(config))
    IN  [bar EXCEPT
            !.price_levels = [levels1 EXCEPT ![k] = level_data],
            !.high_price = Max(bar.high_price, rounded_price),
            !.low_price = Min(bar.low_price, rounded_price),
            !.close_price = rounded_price,
            !.tick_count = @ + 1,
            !.current_aggregated_volume = @ + volume]

(* Lines 52-73 of process_tick: the tick is folded into bar *)
FoldTick(bar, timestamp, price, volume, is_bid_trade) ==
    LET rounded_price == round(price, config.tick_size) * config.tick_size
        levels1 == IF KeyIndex(bar.price_levels, rounded_price) = 0
                   THEN Append(bar.price_levels, PriceLevelData(rounded_price, 0, 0, 0, 0))
                   ELSE bar.price_levels
        k == KeyIndex(levels1, rounded_price)
        counted == IF is_bid_trade
                   THEN [levels1[k] EXCEPT !.bid_volume = @ + volume, !.bid_trades = @ + 1]
                   ELSE [levels1[k] EXCEPT !.ask_volume = @ + volume, !.ask_trades = @ + 1]
        level_data == update_derived_metrics(counted, get_zero_handling_for_ratios(config))
    IN  [bar EXCEPT
            !.price_levels = [levels1 EXCEPT ![k] = level_data],
            !.high_price = Max(bar.high_price, rounded_price),
            !.low_price = Min(bar.low_price, rounded_price),
            !.close_price = rounded_price,
            !.end_time = timestamp,
            !.tick_count = @ + 1,
            !.current_aggregated_volume = @ + volume]

(* process_tick creating the new bar before it finalizes the current one *)
process_tick_create_first(e, timestamp, price, volume, is_bid_trade) ==
    LET e1 == [e EXCEPT !.total_ticks_processed = @ + 1]
        e2 == IF e1.current_bar = None \/ _should_create_new_bar(e1, timestamp, price)
              THEN IF e1.current_bar # None
                   THEN _finalize_current_bar(_create_new_bar(e1, timestamp, price))
                   ELSE _create_new_bar(e1, timestamp, price)
              ELSE e1
    IN  IF e2.current_bar = None
        THEN e2
        ELSE [e2 EXCEPT !.heap[e2.current_bar] =
                 FoldTick(@, timestamp, price, volume, is_bid_trade)]

process_tick(e, timestamp, price, volume, is_bid_trade) ==
    LET e1 == [e EXCEPT !.total_ticks_processed = @ + 1]
        e2 == IF e1.current_bar = None \/ _should_create_new_bar(e1, timestamp, price)
              THEN _create_new_bar(
                       IF e1.current_bar # None THEN _finalize_current_bar(e1) ELSE e1,
                       timestamp, price)
              ELSE e1
    IN  IF e2.current_bar = None
        THEN e2
        ELSE [e2 EXCEPT !.heap[e2.current_bar] =
                 FoldTick(@, timestamp, price, volume, is_bid_trade)]

(* The for loop of process_tick_batch *)
RECURSIVE ForEachTick(_, _)
ForEachTick(e, ticks) ==
    IF Len(ticks) = 0 THEN e
    ELSE LET tick == Head(ticks)
         IN  ForEachTick(process_tick(e, tick.datetime, tick.price, tick.volume,
                                      tick.is_bid_trade),
                         Tail(ticks))

(* process_tick_batch closing the last bar when the batch ends *)
process_tick_batch_closing(e, ticks_df) ==
    _finalize_current_bar(ForEachTick(e, ticks_df))

process_tick_batch(e, ticks_df) ==
    LET e1 == ForEachTick(e, ticks_df)
    IN  IF e1.current_bar # None
        THEN [e1 EXCEPT !.heap[e1.current_bar] =
                 update_bar_statistics(@, config.value_area_percentage)]
        ELSE e1

(* get_all_completed_bars: list(self.bars), a new list of the same FootprintBar *)
(* objects                                                                     *)
get_all_completed_bars(e) == [bars |-> e.bars, is_new_list |-> TRUE]

----------------------------------------------------------------------------
(* The observer.  For every bar the engine still refers to, audit.bars      *)
(* records what the caller fed into it, independently of the engine's own   *)
(* counters: the timestamp of its first tick, the largest timestamp, the    *)
(* timestamp of its latest tick, the prices of its first and latest tick,   *)
(* the volume of its ask and bid ticks, the number of ticks, the volume of  *)
(* its latest tick, how it was closed, its position in the order of         *)
(* finalization and a copy of the bar as it was when the finalizing call    *)
(* returned.  audit.finalized counts finalizations; audit.folded counts the *)
(* process_tick calls that left their tick in the in-progress bar, read off *)
(* the trade counters of the bar's price levels.                            *)

NoAudit == [bars |-> [id \in {} |-> None], finalized |-> 0, folded |-> 0]

(* The trades recorded in the price levels of bar id of engine e *)
TradesIn(e, id) ==
    IF id = None \/ id \notin DOMAIN e.heap THEN 0
    ELSE SumSeq([i \in 1..Len(e.heap[id].price_levels) |->
                    e.heap[id].price_levels[i].bid_trades
                        + e.heap[id].price_levels[i].ask_trades])

FirstTick(tick) ==
    [first_ts |-> tick.datetime, max_ts |-> tick.datetime, last_ts |-> tick.datetime,
     first_price |-> tick.price, last_price |-> tick.price,
     ask_volume |-> IF tick.is_bid_trade THEN 0 ELSE tick.volume,
     bid_volume |-> IF tick.is_bid_trade THEN tick.volume ELSE 0,
     n_ticks |-> 1, last_volume |-> tick.volume,
     closed_by |-> "open", fin_seq |-> 0, frozen |-> <<>>]

NextTick(a, tick) ==
    [a EXCEPT
        !.max_ts = Max(@, tick.datetime),
        !.last_ts = tick.datetime,
        !.last_price = tick.price,
        !.ask_volume = @ + (IF tick.is_bid_trade THEN 0 ELSE tick.volume),
        !.bid_volume = @ + (IF tick.is_bid_trade THEN tick.volume ELSE 0),
        !.n_ticks = @ + 1,
        !.last_volume = tick.volume]

Live(entries, e) == [id \in DOMAIN entries \cap DOMAIN e.heap |-> entries[id]]

(* The engine went from before to after; by says what closed before's bar *)
Closed(aud, before, after, by) ==
    LET id == before.current_bar
    IN  IF id # None /\ after.current_bar # id /\ id \in DOMAIN aud.bars
        THEN [aud EXCEPT
                 !.bars = [aud.bars EXCEPT ![id] =
                              [@ EXCEPT !.closed_by = by,
                                        !.fin_seq = aud.finalized + 1,
                                        !.frozen = IF id \in DOMAIN after.heap
                                                   THEN <<after.heap[id]>> ELSE <<>>]],
                 !.finalized = aud.finalized + 1]
        ELSE aud

(* One process_tick call took the engine from before to after *)
Observe(aud, before, after, tick) ==
    LET a1 == Closed(aud, before, after, "boundary")
        cur == after.current_bar
        entries == IF cur = None THEN a1.bars
                   ELSE IF cur = before.current_bar /\ cur \in DOMAIN a1.bars
                   THEN [a1.bars EXCEPT ![cur] = NextTick(@, tick)]
                   ELSE (cur :> FirstTick(tick)) @@ a1.bars
        earlier == IF cur = before.current_bar THEN TradesIn(before, cur) ELSE 0
        folded == IF cur # None /\ TradesIn(after, cur) = earlier + 1 THEN 1 ELSE 0
    IN  [a1 EXCEPT !.bars = Live(entries, after), !.folded = @ + folded]

RECURSIVE ObserveBatch(_, _, _)
ObserveBatch(aud, e, ticks) ==
    IF Len(ticks) = 0 THEN aud
    ELSE LET tick == Head(ticks)
             e1 == process_tick(e, tick.datetime, tick.price, tick.volume,
                                tick.is_bid_trade)
         IN  ObserveBatch(Observe(aud, e, e1, tick), e1, Tail(ticks))

(* One explicit _finalize_current_bar call took the engine from before to after *)
ObserveFinalize(aud, before, after) ==
    LET a1 == Closed(aud, before, after, "explicit")
    IN  [a1 EXCEPT !.bars = Live(a1.bars, after)]

----------------------------------------------------------------------------
(* The data source: ticks in non-decreasing timestamp order, volume > 0.     *)
(* Where the configuration makes the engine compare timestamps, a tick may  *)
(* carry the timestamp of the one before it; elsewhere time moves on by one *)
(* with every tick.                                                         *)

TimeSteps == IF config.aggregation_type = "time" THEN {0, 1} ELSE {1}

Ticks(from) ==
    [datetime : {from + d : d \in TimeSteps}, price : RawPrices,
     volume : Volumes, is_bid_trade : BOOLEAN]

RECURSIVE TickFrames(_, _)
TickFrames(from, n) ==
    IF n = 0 THEN {<<>>}
    ELSE UNION {{<<t>> \o s : s \in TickFrames(t.datetime, n - 1)} : t \in Ticks(from)}

LatestTime(ticks) == IF Len(ticks) = 0 THEN clock ELSE ticks[Len(ticks)].datetime

----------------------------------------------------------------------------
(* The engine driven by its caller *)

(* The caller holds no list yet; no Value Area search is under way *)
NoCaller == [returned |-> <<>>, is_new_list |-> TRUE, args |-> <<>>]

NoSearch ==
    [levels |-> <<>>, sorted_prices |-> <<>>, poc_index |-> 0,
     low_idx |-> 0, high_idx |-> 0, va_volume |-> 0,
     total |-> 0, pct |-> 0, steps |-> 0, pc |-> "idle"]

InitEngine ==
    /\ engine = Collect(FootprintEngine)
    /\ single = Collect(FootprintEngine)
    /\ audit = NoAudit
    /\ clock = 0
    /\ last_call = "__init__"
    /\ caller = NoCaller
    /\ va = NoSearch

Init ==
    /\ config \in Configs
    /\ InitEngine
    /\ pld = PriceLevelData(0, 0, 0, 0, 0)
    /\ policy = "set_to_one"

ProcessTick ==
    /\ engine.total_ticks_processed < MaxTicks
    /\ \E tick \in Ticks(clock) :
         LET after == process_tick(engine, tick.datetime, tick.price, tick.volume,
                                   tick.is_bid_trade)
         IN  /\ engine' = after
             /\ single' = process_tick(single, tick.datetime, tick.price, tick.volume,
                                       tick.is_bid_trade)
             /\ audit' = Observe(audit, engine, after, tick)
             /\ clock' = tick.datetime
    /\ last_call' = "process_tick"
    /\ UNCHANGED <<config, pld, policy, caller, va>>

ProcessTickBatch ==
    /\ \E n \in BatchSizes :
         /\ engine.total_ticks_processed + n <= MaxTicks
         /\ \E ticks_df \in TickFrames(clock, n) :
              /\ engine' = process_tick_batch(engine, ticks_df)
              /\ single' = ForEachTick(single, ticks_df)
              /\ audit' = ObserveBatch(audit, engine, ticks_df)
              /\ clock' = LatestTime(ticks_df)
    /\ last_call' = "process_tick_batch"
    /\ UNCHANGED <<config, pld, policy, caller, va>>

Finalize ==
    /\ engine' = _finalize_current_bar(engine)
    /\ single' = _finalize_current_bar(single)
    /\ audit' = ObserveFinalize(audit, engine, engine')
    /\ last_call' = "_finalize_current_bar"
    /\ UNCHANGED <<config, clock, pld, policy, caller, va>>

Next == ProcessTick \/ ProcessTickBatch \/ Finalize

Spec == Init /\ [][Next]_vars

----------------------------------------------------------------------------
(* A PriceLevelData driven directly: constructed with any counters, then     *)
(* written to as lines 58-65 of process_tick write to it, or recomputed      *)
(* under either policy.                                                      *)

InitLevel ==
    /\ config = FootprintEngineConfig(2, "time", 2, 70, TRUE, 2)
    /\ InitEngine
    /\ \E b \in 0..MaxLevelVol, a \in 0..MaxLevelVol :
         pld = PriceLevelData(0, b, a, 0, 0)
    /\ policy = "set_to_one"

LevelRecord ==
    /\ \E volume \in Volumes, is_bid_trade \in BOOLEAN, zero_handling \in {"set_to_one", "inf"} :
         /\ (IF is_bid_trade THEN pld.bid_volume ELSE pld.ask_volume) + volume <= MaxLevelVol
         /\ pld' = update_derived_metrics(
                       IF is_bid_trade
                       THEN [pld EXCEPT !.bid_volume = @ + volume, !.bid_trades = @ + 1]
                       ELSE [pld EXCEPT !.ask_volume = @ + volume, !.ask_trades = @ + 1],
                       zero_handling)
         /\ policy' = zero_handling
    /\ UNCHANGED <<config, engine, single, audit, clock, last_call, caller, va>>

LevelRecompute ==
    /\ \E zero_handling \in {"set_to_one", "inf"} :
         /\ pld' = update_derived_metrics(pld, zero_handling)
         /\ policy' = zero_handling
    /\ UNCHANGED <<config, engine, single, audit, clock, last_call, caller, va>>

NextLevel == LevelRecord \/ LevelRecompute

SpecLevel == InitLevel /\ [][NextLevel]_vars

----------------------------------------------------------------------------
(* The caller of get_all_completed_bars.  It keeps the list it was returned  *)
(* and writes to it as Python lets it: to the list itself, and to the        *)
(* FootprintBar objects in it.  A bar the engine no longer refers to is the  *)
(* caller's alone.                                                           *)

InitCaller ==
    /\ config = FootprintEngineConfig(2, "tick", 2, 70, FALSE, 1)
    /\ InitEngine
    /\ pld = PriceLevelData(0, 0, 0, 0, 0)
    /\ policy = "set_to_one"

CallerMutations ==
    {"bars.pop(0)", "bars.append(bars[0])", "bars[i].close_price = 0.0",
     "bars[i].price_levels.clear()"}

GetAllCompletedBars ==
    /\ LET r == get_all_completed_bars(engine)
       IN  caller' = [caller EXCEPT !.returned = r.bars, !.is_new_list = r.is_new_list]
    /\ last_call' = "get_all_completed_bars"
    /\ UNCHANGED <<config, engine, single, audit, clock, pld, policy, va>>

(* What a write to the returned list does to the engine *)
ListWritten(e, list) == IF caller.is_new_list THEN e ELSE [e EXCEPT !.bars = list]

(* What a write to the object id does to the engine *)
BarWritten(e, id, bar) ==
    IF id \in DOMAIN e.heap THEN [e EXCEPT !.heap[id] = bar] ELSE e

CallerListPop ==
    /\ Len(caller.returned) > 0
    /\ caller' = [caller EXCEPT !.returned = Tail(@)]
    /\ engine' = ListWritten(engine, caller'.returned)
    /\ last_call' = "bars.pop(0)"
    /\ UNCHANGED <<config, single, audit, clock, pld, policy, va>>

CallerListAppend ==
    /\ Len(caller.returned) \in 1..config.max_bars_in_memory
    /\ caller' = [caller EXCEPT !.returned = Append(@, caller.returned[1])]
    /\ engine' = ListWritten(engine, caller'.returned)
    /\ last_call' = "bars.append(bars[0])"
    /\ UNCHANGED <<config, single, audit, clock, pld, policy, va>>

CallerSetClosePrice ==
    /\ \E i \in 1..Len(caller.returned) :
         LET id == caller.returned[i]
         IN  /\ id \in DOMAIN engine.heap
             /\ engine' = BarWritten(engine, id, [engine.heap[id] EXCEPT !.close_price = 0])
    /\ last_call' = "bars[i].close_price = 0.0"
    /\ UNCHANGED <<config, single, audit, clock, pld, policy, caller, va>>

CallerClearLevels ==
    /\ \E i \in 1..Len(caller.returned) :
         LET id == caller.returned[i]
         IN  /\ id \in DOMAIN engine.heap
             /\ engine' = BarWritten(engine, id, [engine.heap[id] EXCEPT !.price_levels = <<>>])
    /\ last_call' = "bars[i].price_levels.clear()"
    /\ UNCHANGED <<config, single, audit, clock, pld, policy, caller, va>>

NextCaller ==
    \/ ProcessTick
    \/ Finalize
    \/ GetAllCompletedBars
    \/ CallerListPop
    \/ CallerListAppend
    \/ CallerSetClosePrice
    \/ CallerClearLevels

SpecCaller == InitCaller /\ [][NextCaller]_vars

----------------------------------------------------------------------------
(* A data source that does not keep the input contract: a tick may carry a   *)
(* volume of zero or less, and a timestamp before that of the tick supplied  *)
(* before it.  caller.args holds the ticks handed to the latest call.        *)

RawVolumes == {-1, 0, 1}

RawTicks(from) ==
    [datetime : {t \in {from - 1, from + 1} : t >= 0}, price : RawPrices,
     volume : RawVolumes, is_bid_trade : BOOLEAN]

RawTickFrames(from) ==
    UNION {{<<t1, t2>> : t2 \in RawTicks(t1.datetime)} : t1 \in RawTicks(from)}

InitRaw ==
    /\ config = FootprintEngineConfig(2, "time", 2, 70, TRUE, 2)
    /\ InitEngine
    /\ pld = PriceLevelData(0, 0, 0, 0, 0)
    /\ policy = "set_to_one"

ProcessTickRaw ==
    /\ engine.total_ticks_processed < MaxTicks
    /\ \E tick \in RawTicks(clock) :
         LET after == process_tick(engine, tick.datetime, tick.price, tick.volume,
                                   tick.is_bid_trade)
         IN  /\ engine' = after
             /\ single' = process_tick(single, tick.datetime, tick.price, tick.volume,
                                       tick.is_bid_trade)
             /\ audit' = Observe(audit, engine, after, tick)
             /\ clock' = tick.datetime
             /\ caller' = [caller EXCEPT !.args = <<tick>>]
    /\ last_call' = "process_tick"
    /\ UNCHANGED <<config, pld, policy, va>>

ProcessTickBatchRaw ==
    /\ engine.total_ticks_processed + 2 <= MaxTicks
    /\ \E ticks_df \in RawTickFrames(clock) :
         /\ engine' = process_tick_batch(engine, ticks_df)
         /\ single' = ForEachTick(single, ticks_df)
         /\ audit' = ObserveBatch(audit, engine, ticks_df)
         /\ clock' = LatestTime(ticks_df)
         /\ caller' = [caller EXCEPT !.args = ticks_df]
    /\ last_call' = "process_tick_batch"
    /\ UNCHANGED <<config, pld, policy, va>>

NextRaw == ProcessTickRaw \/ ProcessTickBatchRaw \/ Finalize

SpecRaw == InitRaw /\ [][NextRaw]_vars

----------------------------------------------------------------------------
(* An engine constructed with a configuration the spec calls invalid.        *)
(* Neither FootprintEngineConfig nor FootprintEngine.__init__ checks a       *)
(* field, so construction succeeds; price / tick_size raises                 *)
(* ZeroDivisionError when tick_size is 0, at the first line of               *)
(* _create_new_bar, after process_tick has counted the tick.                 *)

InvalidConfigs ==
    {FootprintEngineConfig(0, "tick", 2, 70, TRUE, 2),
     FootprintEngineConfig(-2, "tick", 2, 70, TRUE, 2),
     FootprintEngineConfig(2, "tick", 0, 70, TRUE, 2),
     FootprintEngineConfig(2, "tick", -1, 70, FALSE, 1),
     FootprintEngineConfig(2, "volume", 0, 70, TRUE, 2)}

InitInvalid ==
    /\ config \in InvalidConfigs
    /\ InitEngine
    /\ pld = PriceLevelData(0, 0, 0, 0, 0)
    /\ policy = "set_to_one"

ProcessTickInvalid ==
    /\ engine.total_ticks_processed < MaxTicks
    /\ \E tick \in Ticks(clock) :
         /\ IF config.tick_size = 0
            THEN /\ engine' = [engine EXCEPT !.total_ticks_processed = @ + 1]
                 /\ last_call' = "process_tick raised ZeroDivisionError"
            ELSE /\ engine' = process_tick(engine, tick.datetime, tick.price,
                                           tick.volume, tick.is_bid_trade)
                 /\ last_call' = "process_tick"
         /\ clock' = tick.datetime
    /\ UNCHANGED <<config, single, audit, pld, policy, caller, va>>

NextInvalid == ProcessTickInvalid

SpecInvalid == InitInvalid /\ [][NextInvalid]_vars

----------------------------------------------------------------------------
(* The Value Area search of update_bar_statistics on a free-standing bar,    *)
(* one pass through the while loop at a time.  The bar has up to MaxLevels   *)
(* price levels, inserted in any order.  The volume of a level is any of     *)
(* VaVolumes: ask_volume is an int that nothing checks, and process_tick     *)
(* adds the volume of a tick to it as given, so it can be 0 or negative.     *)
(* The search is entered when the bar's volume is above 0.  va.steps counts  *)
(* the expansions made.                                                      *)

VaPercentages == {50, 70, 100, 150}
VaVolumes == (0 - 1)..MaxVaVol

InsertionOrders(n) == {f \in [1..n -> 1..n] : \A i, j \in 1..n : f[i] = f[j] => i = j}

BarLevels ==
    UNION {{[i \in 1..n |-> PriceLevelData(2 * f[i], 0, v[i], 0, 0)] :
               f \in InsertionOrders(n), v \in [1..n -> VaVolumes]} : n \in 1..MaxLevels}

(* Lines 147-153: the loop variables before the first pass *)
ValueAreaStart(levels, pct) ==
    LET total == SumSeq([i \in 1..Len(levels) |-> levels[i].total_volume])
        poc_price == MaxVolumeLevel(levels).price
        sorted_prices == SortedSeq(Keys(levels))
        poc_index == CHOOSE i \in 1..Len(sorted_prices) : sorted_prices[i] = poc_price
    IN  [levels |-> levels, sorted_prices |-> sorted_prices, poc_index |-> poc_index,
         low_idx |-> poc_index, high_idx |-> poc_index,
         va_volume |-> LevelAt(levels, poc_price).total_volume,
         total |-> total, pct |-> pct, steps |-> 0, pc |-> "loop"]

(* The while condition: va_volume < target_va_volume *)
BelowTarget(search) == search.va_volume * 100 < search.total * search.pct

InitVA ==
    /\ config = FootprintEngineConfig(2, "time", 2, 70, TRUE, 2)
    /\ engine = Collect(FootprintEngine)
    /\ single = Collect(FootprintEngine)
    /\ audit = NoAudit
    /\ clock = 0
    /\ last_call = "update_bar_statistics"
    /\ caller = NoCaller
    /\ pld = PriceLevelData(0, 0, 0, 0, 0)
    /\ policy = "set_to_one"
    /\ \E levels \in BarLevels, pct \in VaPercentages :
         /\ SumSeq([i \in 1..Len(levels) |-> levels[i].total_volume]) > 0
         /\ va = ValueAreaStart(levels, pct)

(* One pass through the loop body; the guard on steps only stops a search   *)
(* that has already made more expansions than there are levels              *)
ValueAreaPass ==
    /\ va.pc = "loop"
    /\ BelowTarget(va)
    /\ va.steps <= Len(va.sorted_prices)
    /\ LET s == ValueAreaIteration(va.levels, va.sorted_prices, va.low_idx,
                                   va.high_idx, va.va_volume)
       IN  va' = IF s.broke
                 THEN [va EXCEPT !.pc = "done"]
                 ELSE [va EXCEPT !.low_idx = s.low_idx, !.high_idx = s.high_idx,
                                 !.va_volume = s.va_volume, !.steps = @ + 1]
    /\ UNCHANGED <<config, engine, single, audit, clock, last_call, pld, policy, caller>>

(* The while condition is false: the loop is left *)
ValueAreaExit ==
    /\ va.pc = "loop"
    /\ ~BelowTarget(va)
    /\ va' = [va EXCEPT !.pc = "done"]
    /\ UNCHANGED <<config, engine, single, audit, clock, last_call, pld, policy, caller>>

NextVA == ValueAreaPass \/ ValueAreaExit

SpecVA == InitVA /\ [][NextVA]_vars

----------------------------------------------------------------------------
(* Properties *)

HistoryIds == Range(engine.bars)
LiveIds == DOMAIN engine.heap
Audited(id) == id \in DOMAIN audit.bars
InProgress == engine.current_bar # None

(* C1: in TICK mode with threshold N every bar holds between 1 and N ticks   *)
(* (its tick_count being the number of ticks fed into it), a bar closed by a *)
(* boundary crossing holds exactly N, so a tick starts a new bar exactly     *)
(* when the bar before it already held N, and that new bar then counts 1.    *)
C1_TickThreshold ==
    config.aggregation_type = "tick" =>
        \A id \in LiveIds :
            /\ Audited(id)
            /\ engine.heap[id].tick_count = audit.bars[id].n_ticks
            /\ engine.heap[id].tick_count \in 1..config.aggregation_value
            /\ audit.bars[id].closed_by = "boundary" =>
                   engine.heap[id].tick_count = config.aggregation_value

C1_Witness ==
    /\ config.aggregation_type = "tick"
    /\ config.aggregation_value = 2
    /\ last_call = "process_tick"
    /\ InProgress
    /\ engine.heap[engine.current_bar].tick_count = 1
    /\ \E id \in HistoryIds :
          /\ audit.bars[id].closed_by = "boundary"
          /\ engine.heap[id].tick_count = 2

(* C2: in TIME mode with duration D the start_time of every bar is the       *)
(* timestamp of its first tick floored to a multiple of D, no tick of the    *)
(* bar has a timestamp >= start_time + D, and the first tick of the bar that *)
(* follows a bar closed by a boundary crossing has a timestamp at or past    *)
(* that bar's start_time + D.                                                *)
C2_TimeWindow ==
    config.aggregation_type = "time" =>
        LET D == config.aggregation_value
        IN  \A id \in LiveIds :
                /\ Audited(id)
                /\ engine.heap[id].start_time = floor(audit.bars[id].first_ts, D)
                /\ audit.bars[id].max_ts < engine.heap[id].start_time + D
                /\ (audit.bars[id].closed_by = "boundary" /\ id + 1 \in LiveIds) =>
                       /\ Audited(id + 1)
                       /\ audit.bars[id + 1].first_ts >= engine.heap[id].start_time + D

C2_Witness ==
    /\ config.aggregation_type = "time"
    /\ InProgress
    /\ \E id \in HistoryIds :
          /\ audit.bars[id].closed_by = "boundary"
          /\ audit.bars[id].n_ticks >= 2
          /\ audit.bars[id].first_ts # engine.heap[id].start_time
          /\ audit.bars[engine.current_bar].first_ts
                 >= engine.heap[id].start_time + config.aggregation_value

(* C3: the history never holds more than max_bars_in_memory bars; it holds   *)
(* all bars finalized so far while they are no more than that, and then      *)
(* exactly the max_bars_in_memory most recently finalized ones, in the order *)
(* of finalization, which is non-decreasing start_time order.                *)
C3_BoundedFifo ==
    LET n == Len(engine.bars)
    IN  /\ n <= config.max_bars_in_memory
        /\ n = Min(audit.finalized, config.max_bars_in_memory)
        /\ \A i \in 1..n :
              /\ Audited(engine.bars[i])
              /\ audit.bars[engine.bars[i]].fin_seq = audit.finalized - n + i
        /\ \A i \in 1..(n - 1) :
              engine.heap[engine.bars[i]].start_time
                  <= engine.heap[engine.bars[i + 1]].start_time

C3_Witness ==
    /\ config.max_bars_in_memory = 2
    /\ audit.finalized = 3
    /\ Len(engine.bars) = 2
    /\ audit.bars[engine.bars[1]].fin_seq = 2

(* Volume of the levels of a bar whose price lies in [low, high] *)
VolumeWithin(levels, low, high) ==
    SumSeq([i \in 1..Len(levels) |->
               IF low <= levels[i].price /\ levels[i].price <= high
               THEN levels[i].total_volume ELSE 0])

(* C4: every bar in the history has its Value Area around its POC, both      *)
(* bounds being prices of the bar's levels, and the volume of the levels     *)
(* within the bounds is at least value_area_percentage of the bar's volume,  *)
(* or is all of it.                                                          *)
C4_ValueArea ==
    \A id \in HistoryIds :
        LET bar == engine.heap[id]
            levels == bar.price_levels
            inside == VolumeWithin(levels, bar.value_area_low, bar.value_area_high)
            all == VolumeWithin(levels, bar.low_price, bar.high_price)
        IN  /\ bar.poc_price # NoPrice
            /\ bar.value_area_low # NoPrice
            /\ bar.value_area_high # NoPrice
            /\ bar.value_area_low <= bar.poc_price
            /\ bar.poc_price <= bar.value_area_high
            /\ bar.value_area_low \in Keys(levels)
            /\ bar.value_area_high \in Keys(levels)
            /\ \/ inside * 100 >= config.value_area_percentage * bar.total_bar_volume
               \/ inside = bar.total_bar_volume
            /\ all = bar.total_bar_volume

C4_Witness ==
    \E id \in HistoryIds :
        LET bar == engine.heap[id]
        IN  /\ Len(bar.price_levels) = 3
            /\ bar.value_area_low < bar.value_area_high
            /\ VolumeWithin(bar.price_levels, bar.value_area_low, bar.value_area_high)
                   < bar.total_bar_volume

(* C5: every bar in the history carries summary fields computed from all the *)
(* ticks fed into it: the volumes of all, of the ask and of the bid ticks,   *)
(* their difference, the number of ticks, and is_up_bar.                     *)
C5_SummaryFields ==
    \A id \in HistoryIds :
        LET bar == engine.heap[id]
        IN  /\ Audited(id)
            /\ bar.total_bar_volume = audit.bars[id].ask_volume + audit.bars[id].bid_volume
            /\ bar.total_bar_volume = bar.current_aggregated_volume
            /\ bar.total_bar_ask_volume = audit.bars[id].ask_volume
            /\ bar.total_bar_bid_volume = audit.bars[id].bid_volume
            /\ bar.bar_delta = bar.total_bar_ask_volume - bar.total_bar_bid_volume
            /\ bar.total_bar_trades = bar.tick_count
            /\ bar.total_bar_trades = audit.bars[id].n_ticks
            /\ bar.is_up_bar = (bar.close_price >= bar.open_price)

C5_Witness ==
    \E id \in HistoryIds :
        /\ audit.bars[id].n_ticks = 3
        /\ audit.bars[id].ask_volume > 0
        /\ audit.bars[id].bid_volume > audit.bars[id].ask_volume
        /\ engine.heap[id].bar_delta < 0
        /\ engine.heap[id].is_up_bar

(* C6: in every bar the engine holds, every price level has its derived      *)
(* fields equal to what its four counters give.                              *)
C6_DerivedFields ==
    \A id \in LiveIds :
        \A i \in 1..Len(engine.heap[id].price_levels) :
            LET level == engine.heap[id].price_levels[i]
            IN  /\ level.total_volume = level.bid_volume + level.ask_volume
                /\ level.total_trades = level.bid_trades + level.ask_trades
                /\ level.delta = level.ask_volume - level.bid_volume
                /\ level.is_ask_dominant = (level.ask_volume >= level.bid_volume)

C6_Witness ==
    \E id \in LiveIds :
        \E i \in 1..Len(engine.heap[id].price_levels) :
            LET level == engine.heap[id].price_levels[i]
            IN  /\ level.ask_volume > 0
                /\ level.bid_volume > level.ask_volume
                /\ level.total_trades = 3

(* C7: the dominance ratio of a level is 0 when both volumes are 0; with one *)
(* volume 0 it is the other volume under set_to_one and infinite under inf;  *)
(* otherwise it is the larger volume over the smaller, ask counting as the   *)
(* dominant side on a tie.                                                   *)
C7_DominanceRatio ==
    LET b == pld.bid_volume
        a == pld.ask_volume
        r == pld.dominance_ratio
    IN  /\ (a = 0 /\ b = 0) => (r[1] = 0 /\ r[2] # 0)
        /\ ((a = 0) # (b = 0) /\ policy = "set_to_one") =>
               (r[2] # 0 /\ r[1] = Max(a, b) * r[2])
        /\ ((a = 0) # (b = 0) /\ policy = "inf") => r = Infinity
        /\ (a > 0 /\ b > 0) => (r[2] # 0 /\ r[1] * Min(a, b) = Max(a, b) * r[2])
        /\ (a = b) => pld.is_ask_dominant
        /\ (a > 0 /\ b > 0 /\ pld.is_ask_dominant) => r = <<a, b>>
        /\ (a > 0 /\ b > 0 /\ ~pld.is_ask_dominant) => r = <<b, a>>

C7_Witness ==
    /\ policy = "inf"
    /\ pld.bid_trades > 0
    /\ pld.ask_volume = 0
    /\ pld.bid_volume > 0
    /\ pld.dominance_ratio = Infinity

(* C8: in VOLUME mode with threshold V the accumulated volume of every bar   *)
(* is the volume of the ticks fed into it, without its latest tick it is     *)
(* below V, and a bar closed by a boundary crossing has reached V.           *)
C8_VolumeThreshold ==
    config.aggregation_type = "volume" =>
        \A id \in LiveIds :
            LET bar == engine.heap[id]
            IN  /\ Audited(id)
                /\ bar.current_aggregated_volume
                       = audit.bars[id].ask_volume + audit.bars[id].bid_volume
                /\ bar.current_aggregated_volume - audit.bars[id].last_volume
                       < config.aggregation_value
                /\ audit.bars[id].closed_by = "boundary" =>
                       bar.current_aggregated_volume >= config.aggregation_value

C8_Witness ==
    /\ config.aggregation_type = "volume"
    /\ InProgress
    /\ audit.bars[engine.current_bar].n_ticks = 1
    /\ \E id \in HistoryIds :
          /\ audit.bars[id].closed_by = "boundary"
          /\ audit.bars[id].n_ticks = 2
          /\ engine.heap[id].current_aggregated_volume > config.aggregation_value

(* A bar without its summary fields *)
Core(bar) ==
    [bar EXCEPT
        !.total_bar_volume = 0, !.total_bar_ask_volume = 0, !.total_bar_bid_volume = 0,
        !.total_bar_trades = 0, !.bar_delta = 0, !.poc_price = NoPrice,
        !.value_area_high = NoPrice, !.value_area_low = NoPrice, !.is_up_bar = FALSE]

(* C9: the engine, whatever mixture of batches and single ticks it was fed,  *)
(* has the history and the in-progress bar (summary fields aside) of the     *)
(* engine that was fed the same ticks one process_tick at a time; and when a *)
(* batch has just ended, the in-progress bar is that engine's in-progress    *)
(* bar with its statistics recomputed, and is not in the history.            *)
C9_BatchEquivalence ==
    /\ engine.bars = single.bars
    /\ engine.current_bar = single.current_bar
    /\ engine.total_ticks_processed = single.total_ticks_processed
    /\ DOMAIN engine.heap = DOMAIN single.heap
    /\ \A id \in HistoryIds \cap DOMAIN single.heap : engine.heap[id] = single.heap[id]
    /\ (InProgress /\ engine.current_bar \in DOMAIN single.heap) =>
           Core(engine.heap[engine.current_bar]) = Core(single.heap[engine.current_bar])
    /\ (last_call = "process_tick_batch" /\ InProgress
            /\ engine.current_bar \in DOMAIN single.heap) =>
           /\ engine.current_bar \notin HistoryIds
           /\ engine.heap[engine.current_bar]
                  = update_bar_statistics(single.heap[engine.current_bar],
                                          config.value_area_percentage)

C9_Witness ==
    /\ last_call = "process_tick_batch"
    /\ InProgress
    /\ Len(engine.bars) >= 1
    /\ engine.heap[engine.current_bar].tick_count = 2
    /\ engine.heap[engine.current_bar].total_bar_trades = 2
    /\ single.heap[engine.current_bar].total_bar_trades = 0

(* C10: the in-progress bar is not in the history, no bar is in the history  *)
(* twice, the only bar the engine holds outside the history is the one in    *)
(* progress, and every bar in the history is as it was when the call that    *)
(* finalized it returned.                                                    *)
C10_FinalizedOnce ==
    /\ engine.current_bar \notin HistoryIds
    /\ \A i, j \in 1..Len(engine.bars) : engine.bars[i] = engine.bars[j] => i = j
    /\ LiveIds \ HistoryIds \subseteq {engine.current_bar}
    /\ \A id \in HistoryIds :
          /\ Audited(id)
          /\ audit.bars[id].frozen = <<engine.heap[id]>>

C10_Witness ==
    /\ InProgress
    /\ Len(engine.bars) = 2
    /\ audit.bars[engine.current_bar].n_ticks >= 1
    /\ audit.bars[engine.bars[1]].closed_by = "explicit"
    /\ audit.bars[engine.bars[2]].closed_by = "boundary"

(* C11: no write the caller makes to the value get_all_completed_bars      *)
(* returned (to the list, or to the fields or price levels of a bar in it)   *)
(* changes the engine: its history and the bars it holds stay as they were.  *)
C11_SnapshotIsolated ==
    [][last_call' \in CallerMutations => engine' = engine]_vars

(* s is what is left of t after some of its first elements were dropped *)
IsSuffix(s, t) ==
    /\ Len(s) <= Len(t)
    /\ \A i \in 1..Len(s) : s[i] = t[Len(t) - Len(s) + i]

(* C12: a call of _finalize_current_bar with a bar in progress appends       *)
(* exactly that bar, its statistics recomputed and nothing else of it        *)
(* changed, to the history and leaves no bar in progress; with no bar in     *)
(* progress it changes nothing, so a second call in a row does nothing.  A   *)
(* batch never closes the bar it leaves in progress: after a batch of at     *)
(* least one tick a bar is in progress and is not in the history.            *)
C12_ExplicitFinalize ==
    [][/\ last_call' = "_finalize_current_bar" =>
            IF engine.current_bar = None
            THEN engine' = engine
            ELSE LET id == engine.current_bar
                     n == Len(engine'.bars)
                 IN  /\ engine'.current_bar = None
                     /\ n >= 1
                     /\ engine'.bars[n] = id
                     /\ id \notin Range(engine.bars)
                     /\ IsSuffix(SubSeq(engine'.bars, 1, n - 1), engine.bars)
                     /\ id \in DOMAIN engine'.heap
                     /\ Core(engine'.heap[id]) = Core(engine.heap[id])
                     /\ engine'.heap[id] = update_bar_statistics(engine.heap[id],
                                                config.value_area_percentage)
                     /\ engine'.total_ticks_processed = engine.total_ticks_processed
                     /\ \A h \in Range(engine'.bars) \ {id} :
                            engine'.heap[h] = engine.heap[h]
       /\ last_call' = "process_tick_batch" =>
            IF engine'.total_ticks_processed > engine.total_ticks_processed
            THEN /\ engine'.current_bar # None
                 /\ engine'.current_bar \notin Range(engine'.bars)
            ELSE /\ engine'.bars = engine.bars
                 /\ engine'.current_bar = engine.current_bar
      ]_vars

C12_Witness ==
    /\ last_call = "_finalize_current_bar"
    /\ engine.current_bar = None
    /\ Len(engine.bars) = 2
    /\ audit.bars[engine.bars[2]].closed_by = "explicit"
    /\ audit.bars[engine.bars[2]].n_ticks = 2
    /\ audit.bars[engine.bars[1]].closed_by = "explicit"

(* The engine's bars: the history, the bar in progress and their contents *)
BarsOf(e) == [bars |-> e.bars, current_bar |-> e.current_bar, heap |-> e.heap]

(* The tick keeps the input contract, prev being the timestamp of the tick  *)
(* processed before it (there is none before the engine's first tick)       *)
KeepsContract(tick, is_first, prev) ==
    /\ tick.volume > 0
    /\ is_first \/ tick.datetime >= prev

(* C13: a tick with volume <= 0, or with a timestamp before that of the tick *)
(* processed before it, is rejected on its own: process_tick leaves the bar  *)
(* in progress and the history as they were for that tick, and a batch still *)
(* processes the ticks that follow it.                                       *)
C13_RejectsInvalidTick ==
    [][/\ last_call' = "process_tick" =>
            LET tick == caller'.args[1]
            IN  ~KeepsContract(tick, engine.total_ticks_processed = 0, clock) =>
                    BarsOf(engine') = BarsOf(engine)
       /\ last_call' = "process_tick_batch" =>
            LET t1 == caller'.args[1]
                t2 == caller'.args[2]
                ok1 == KeepsContract(t1, engine.total_ticks_processed = 0, clock)
                ok2 == KeepsContract(t2, engine.total_ticks_processed = 0 /\ ~ok1,
                                     IF ok1 THEN t1.datetime ELSE clock)
                kept == (IF ok1 THEN <<t1>> ELSE <<>>) \o (IF ok2 THEN <<t2>> ELSE <<>>)
            IN  BarsOf(engine') = BarsOf(process_tick_batch(engine, kept))
      ]_vars

(* C14: under a configuration with tick_size <= 0, or with an               *)
(* aggregation_value <= 0 in TICK or VOLUME mode, no process_tick call       *)
(* returns normally, no tick is folded into a bar and no bar is finalized.   *)
C14_InvalidConfigSurfaced ==
    (\/ config.tick_size <= 0
     \/ /\ config.aggregation_type \in {"tick", "volume"}
        /\ config.aggregation_value <= 0) =>
        /\ last_call # "process_tick"
        /\ engine.current_bar = None
        /\ engine.bars = <<>>

(* C15: in RANGE and REVERSAL modes no process_tick call finalizes a bar:   *)
(* every bar in the history was closed by an explicit finalization, and      *)
(* until the caller finalizes the history is empty and all the ticks         *)
(* processed so far are in the one bar in progress.                          *)
C15_ReservedModesNeverClose ==
    config.aggregation_type \in {"range", "reversal"} =>
        /\ \A id \in LiveIds :
              /\ Audited(id)
              /\ audit.bars[id].closed_by # "boundary"
        /\ \A id \in HistoryIds : audit.bars[id].closed_by = "explicit"
        /\ audit.finalized = 0 =>
              /\ engine.bars = <<>>
              /\ engine.total_ticks_processed > 0 =>
                    /\ InProgress
                    /\ engine.heap[engine.current_bar].tick_count
                           = engine.total_ticks_processed

C15_Witness ==
    /\ config.aggregation_type = "range"
    /\ last_call = "process_tick"
    /\ audit.finalized = 0
    /\ InProgress
    /\ engine.heap[engine.current_bar].tick_count = 3
    /\ engine.heap[engine.current_bar].high_price
           - engine.heap[engine.current_bar].low_price > config.aggregation_value

(* The bars whose statistics are fresh: those in the history, and the bar   *)
(* in progress when a batch has just ended                                   *)
FreshIds ==
    HistoryIds \cup (IF last_call = "process_tick_batch" /\ InProgress
                     THEN {engine.current_bar} ELSE {})

(* C16: after update_bar_statistics on a bar with at least one price level,  *)
(* poc_price is the price of a level of the bar whose total_volume no other  *)
(* level exceeds, and among the levels that tie for the maximum it is the    *)
(* one created first in the bar.                                             *)
C16_PocFirstCreated ==
    \A id \in FreshIds :
        LET bar == engine.heap[id]
            levels == bar.price_levels
            k == KeyIndex(levels, bar.poc_price)
        IN  Len(levels) >= 1 =>
                /\ bar.poc_price \in Keys(levels)
                /\ \A j \in 1..Len(levels) :
                      /\ levels[j].total_volume <= levels[k].total_volume
                      /\ levels[j].total_volume = levels[k].total_volume => k <= j

C16_Witness ==
    \E id \in HistoryIds :
        LET bar == engine.heap[id]
            levels == bar.price_levels
            k == KeyIndex(levels, bar.poc_price)
        IN  /\ Len(levels) = 3
            /\ k = 1
            /\ \E j \in 2..3 :
                  /\ levels[j].total_volume = levels[k].total_volume
                  /\ levels[j].price < levels[k].price

(* What the level above the window and the level below it offer *)
VolAbove(search) ==
    IF search.high_idx + 1 <= Len(search.sorted_prices)
    THEN LevelAt(search.levels, search.sorted_prices[search.high_idx + 1]).total_volume
    ELSE 0

VolBelow(search) ==
    IF search.low_idx - 1 >= 1
    THEN LevelAt(search.levels, search.sorted_prices[search.low_idx - 1]).total_volume
    ELSE 0

(* Volume of the levels at positions low..high of the sorted price list *)
WindowVolume(search) ==
    SumSeq([i \in 1..(search.high_idx - search.low_idx + 1) |->
               LevelAt(search.levels,
                       search.sorted_prices[search.low_idx + i - 1]).total_volume])

WindowInList(search) ==
    /\ 1 <= search.low_idx
    /\ search.low_idx <= search.poc_index
    /\ search.poc_index <= search.high_idx
    /\ search.high_idx <= Len(search.sorted_prices)

(* C17: the Value Area search starts with the window holding the POC level   *)
(* alone; each pass that finds the window below the target grows it by one   *)
(* adjacent level of the sorted price list, toward the neighbour with more   *)
(* volume, upward on a tie, a missing neighbour counting as 0; the window is *)
(* always a range of positions of the sorted list that contains the POC's,   *)
(* and va_volume is always the volume of the levels in it.                   *)
C17_WindowGrowth ==
    /\ [](va.pc # "idle" =>
            /\ va.steps = 0 => (va.low_idx = va.poc_index /\ va.high_idx = va.poc_index)
            /\ WindowInList(va)
            /\ va.high_idx - va.low_idx = va.steps
            /\ va.va_volume = WindowVolume(va))
    /\ [][va'.steps # va.steps =>
            /\ BelowTarget(va)
            /\ va'.steps = va.steps + 1
            /\ IF VolAbove(va) >= VolBelow(va)
               THEN /\ va'.high_idx = va.high_idx + 1
                    /\ va'.low_idx = va.low_idx
                    /\ va'.va_volume = va.va_volume + VolAbove(va)
               ELSE /\ va'.low_idx = va.low_idx - 1
                    /\ va'.high_idx = va.high_idx
                    /\ va'.va_volume = va.va_volume + VolBelow(va)
      ]_vars

(* C18: the Value Area search terminates: it makes at most (number of price  *)
(* levels - 1) expansions, never holds a position outside the sorted price   *)
(* list, and is over when the target is met or when neither neighbour        *)
(* offers volume.                                                            *)
C18_SearchTerminates ==
    va.pc # "idle" =>
        /\ va.steps <= Len(va.sorted_prices) - 1
        /\ va.low_idx \in 1..Len(va.sorted_prices)
        /\ va.high_idx \in 1..Len(va.sorted_prices)
        /\ (va.pc = "loop" /\ va.steps = Len(va.sorted_prices) - 1) =>
               \/ ~BelowTarget(va)
               \/ VolAbove(va) = 0 /\ VolBelow(va) = 0
        /\ va.pc = "done" =>
               \/ ~BelowTarget(va)
               \/ VolAbove(va) = 0 /\ VolBelow(va) = 0

(* The price quantized to the configured tick size *)
Quantized(price) == round(price, config.tick_size) * config.tick_size

(* The largest and the smallest of a non-empty set of numbers *)
MaxOf(S) == CHOOSE x \in S : \A y \in S : y <= x
MinOf(S) == CHOOSE x \in S : \A y \in S : x <= y

(* C19: every bar has low_price <= open_price <= high_price and              *)
(* low_price <= close_price <= high_price; open_price is the quantized price *)
(* of the bar's first tick and never changes; close_price is the quantized   *)
(* price of the latest tick folded into the bar; high_price and low_price    *)
(* are the largest and smallest key of price_levels, and within a bar        *)
(* high_price never decreases and low_price never increases.                 *)
C19_Ohlc ==
    /\ [](\A id \in LiveIds :
            LET bar == engine.heap[id]
            IN  /\ Audited(id)
                /\ bar.low_price <= bar.open_price
                /\ bar.open_price <= bar.high_price
                /\ bar.low_price <= bar.close_price
                /\ bar.close_price <= bar.high_price
                /\ bar.open_price = Quantized(audit.bars[id].first_price)
                /\ bar.close_price = Quantized(audit.bars[id].last_price)
                /\ Keys(bar.price_levels) # {}
                /\ bar.high_price = MaxOf(Keys(bar.price_levels))
                /\ bar.low_price = MinOf(Keys(bar.price_levels)))
    /\ [][\A id \in DOMAIN engine.heap \cap DOMAIN engine'.heap :
            /\ engine'.heap[id].open_price = engine.heap[id].open_price
            /\ engine'.heap[id].high_price >= engine.heap[id].high_price
            /\ engine'.heap[id].low_price <= engine.heap[id].low_price
      ]_vars

C19_Witness ==
    /\ InProgress
    /\ LET bar == engine.heap[engine.current_bar]
       IN  /\ audit.bars[engine.current_bar].first_price = 5
           /\ bar.open_price = 4
           /\ bar.high_price = 6
           /\ bar.low_price = 2
           /\ bar.close_price = 2
           /\ bar.tick_count = 3

(* What C20 says of every bar and of every step, apart from the order of    *)
(* the history: end_time >= start_time, end_time is the timestamp of the     *)
(* latest tick folded into the bar, start_time is duration-aligned in TIME   *)
(* mode, and end_time never moves backward.                                  *)
BarTimes ==
    \A id \in LiveIds :
        LET bar == engine.heap[id]
        IN  /\ Audited(id)
            /\ bar.end_time >= bar.start_time
            /\ bar.end_time = audit.bars[id].last_ts
            /\ config.aggregation_type = "time" =>
                    bar.start_time % config.aggregation_value = 0

EndTimeForward ==
    \A id \in DOMAIN engine.heap \cap DOMAIN engine'.heap :
        engine'.heap[id].end_time >= engine.heap[id].end_time

HistoryStart(i) == engine.heap[engine.bars[i]].start_time

(* C20 as stated: with ticks in non-decreasing timestamp order every bar has *)
(* end_time >= start_time, end_time never moves backward, end_time is the    *)
(* timestamp of the last tick folded into the bar, and successive bars in    *)
(* history have non-decreasing start_time, strictly increasing and           *)
(* duration-aligned in TIME mode.                                            *)
C20_TimeOrder_Original ==
    /\ [](/\ BarTimes
          /\ \A i \in 1..(Len(engine.bars) - 1) :
                IF config.aggregation_type = "time"
                THEN HistoryStart(i) < HistoryStart(i + 1)
                ELSE HistoryStart(i) <= HistoryStart(i + 1))
    /\ [][EndTimeForward]_vars

(* C20, amended: as above, but in TIME mode start_time is strictly greater   *)
(* than that of the preceding bar in history only when that bar was closed   *)
(* by a boundary crossing; after an explicit _finalize_current_bar the next  *)
(* bar may start in the same interval, and start_time is then equal.         *)
C20_TimeOrder ==
    /\ [](/\ BarTimes
          /\ \A i \in 1..(Len(engine.bars) - 1) :
                /\ HistoryStart(i) <= HistoryStart(i + 1)
                /\ (/\ config.aggregation_type = "time"
                    /\ audit.bars[engine.bars[i]].closed_by = "boundary") =>
                        HistoryStart(i) + config.aggregation_value
                            <= HistoryStart(i + 1))
    /\ [][EndTimeForward]_vars

C20_Witness ==
    /\ config.aggregation_type = "time"
    /\ Len(engine.bars) = 2
    /\ audit.bars[engine.bars[1]].closed_by = "boundary"
    /\ HistoryStart(1) < HistoryStart(2)
    /\ engine.heap[engine.bars[2]].end_time > HistoryStart(2)
    /\ engine.heap[engine.bars[2]].tick_count = 2

(* C21: the safeguard branch of process_tick is never taken: after every    *)
(* process_tick call, alone or in a batch, the engine has a bar in progress  *)
(* and that bar holds the tick just processed; so the cumulative tick        *)
(* counter equals the number of ticks folded into bars.                      *)
C21_SafeguardUnreachable ==
    /\ [](engine.total_ticks_processed = audit.folded)
    /\ [][engine'.total_ticks_processed > engine.total_ticks_processed =>
            LET cur == engine'.current_bar
            IN  /\ cur # None
                /\ cur \in DOMAIN audit'.bars
                /\ audit'.bars[cur].last_ts = clock'
                /\ engine'.heap[cur].end_time = clock'
                /\ engine'.heap[cur].close_price
                       = Quantized(audit'.bars[cur].last_price)
                /\ engine'.heap[cur].tick_count >= 1
                /\ TradesIn(engine', cur) = engine'.heap[cur].tick_count
                /\ audit'.folded - audit.folded
                       = engine'.total_ticks_processed - engine.total_ticks_processed
      ]_vars

C21_Witness ==
    /\ last_call = "process_tick"
    /\ engine.total_ticks_processed = 3
    /\ audit.folded = 3
    /\ Len(engine.bars) = 2
    /\ InProgress
    /\ engine.heap[engine.current_bar].tick_count = 1

(* The summary fields of a bar, and the fields no tick ever writes *)
Summary(bar) ==
    <<bar.total_bar_volume, bar.total_bar_ask_volume, bar.total_bar_bid_volume,
      bar.total_bar_trades, bar.bar_delta, bar.poc_price, bar.value_area_high,
      bar.value_area_low, bar.is_up_bar>>

Fixed(bar) ==
    <<bar.start_time, bar.open_price, bar.bar_direction,
      bar.extreme_price_during_formation>>

(* C22: a process_tick call that crosses no boundary leaves the summary      *)
(* fields of the bar in progress and the whole history unchanged, and        *)
(* writes only the bar's price levels, high, low, close, end_time,           *)
(* tick_count and accumulated volume; a bar created by process_tick has the  *)
(* summary fields of a new FootprintBar; the summary fields of a bar change  *)
(* only when the bar is finalized or is the bar in progress at the end of a  *)
(* batch, and are then those update_bar_statistics computes.                 *)
C22_SummaryExplicit ==
    [][/\ (/\ last_call' = "process_tick"
           /\ engine.current_bar # None
           /\ engine'.current_bar = engine.current_bar) =>
               LET before == engine.heap[engine.current_bar]
                   after == engine'.heap[engine.current_bar]
               IN  /\ Summary(after) = Summary(before)
                   /\ Fixed(after) = Fixed(before)
                   /\ after.tick_count = before.tick_count + 1
                   /\ engine'.bars = engine.bars
                   /\ \A id \in Range(engine.bars) :
                          engine'.heap[id] = engine.heap[id]
       /\ (/\ last_call' = "process_tick"
           /\ engine'.current_bar # engine.current_bar) =>
               Summary(engine'.heap[engine'.current_bar])
                   = Summary(FootprintBar(0, 0, 0, 0, 0, 0))
       /\ \A id \in DOMAIN engine.heap \cap DOMAIN engine'.heap :
              Summary(engine'.heap[id]) # Summary(engine.heap[id]) =>
                  /\ id = engine.current_bar
                  /\ \/ id \in Range(engine'.bars)
                     \/ /\ last_call' = "process_tick_batch"
                        /\ id = engine'.current_bar
                  /\ Summary(engine'.heap[id])
                         = Summary(update_bar_statistics(engine'.heap[id],
                                       config.value_area_percentage))
      ]_vars

C22_Witness ==
    /\ last_call = "process_tick"
    /\ InProgress
    /\ Len(engine.bars) = 1
    /\ LET bar == engine.heap[engine.current_bar]
       IN  /\ bar.tick_count = 2
           /\ bar.total_bar_volume = 1
           /\ bar.current_aggregated_volume = 3
           /\ bar.poc_price # bar.close_price

(* C23: no bar is empty between operations: every bar, in progress or in    *)
(* history, has tick_count >= 1 and at least one price level, its tick_count *)
(* is the sum of total_trades over its price levels and its accumulated      *)
(* volume the sum of their total_volume; every bar in history has poc_price  *)
(* set, so update_bar_statistics did not return early on it.                 *)
C23_NoEmptyBar ==
    /\ \A id \in LiveIds :
          LET bar == engine.heap[id]
              levels == bar.price_levels
          IN  /\ bar.tick_count >= 1
              /\ Len(levels) >= 1
              /\ bar.tick_count
                     = SumSeq([i \in 1..Len(levels) |-> levels[i].total_trades])
              /\ bar.tick_count = TradesIn(engine, id)
              /\ bar.current_aggregated_volume
                     = SumSeq([i \in 1..Len(levels) |-> levels[i].total_volume])
    /\ \A id \in HistoryIds :
          /\ engine.heap[id].poc_price # NoPrice
          /\ engine.heap[id].poc_price \in Keys(engine.heap[id].price_levels)
          /\ engine.heap[id].total_bar_trades = engine.heap[id].tick_count
    /\ (engine.current_bar = None /\ engine.bars = <<>>) => LiveIds = {}

C23_Witness ==
    /\ Len(engine.bars) = 1
    /\ InProgress
    /\ engine.heap[engine.current_bar].tick_count = 1
    /\ LET bar == engine.heap[engine.bars[1]]
       IN  /\ bar.tick_count = 2
           /\ Len(bar.price_levels) = 2
           /\ bar.current_aggregated_volume = 3
           /\ bar.poc_price = 6

====
